---- MODULE Spec2Model ----
(***************************************************************************)
(* Model of sweejs/sweejs.cc: the node binding of the Sweep LIDAR driver.  *)
(* A Sweep wrapper object owns a std::shared_ptr to the driver's device;   *)
(* the synchronous methods call the driver on the caller's (JavaScript)    *)
(* thread, scan() queues an AsyncScanWorker whose Execute runs get_scan on *)
(* a thread-pool thread and whose completion runs on the caller's thread.  *)
(* Sweep objects share no state, each has its own device: the model        *)
(* follows one object from the calls of New that precede it to its         *)
(* collection and the completion of the workers it queued.                 *)
(***************************************************************************)
EXTENDS Integers, Sequences, FiniteSets, TLC

\* ---------------------------------------------------------------- bounds
MaxFailures == 1        \* driver error handles that may stay unreleased
MaxScans    == 2        \* AsyncScanWorkers ever queued
MaxSamples  == 2        \* samples in one scan the driver returns

Tasks == 1..MaxScans

\* ------------------------------------------------------ JavaScript values
\* A JavaScript value is a type tag and a payload: a Number carries its
\* (integral) value, a string or a function an identity number.
JSValues  == { [t |-> "number", v |-> 5], [t |-> "string", v |-> 1],
               [t |-> "function", v |-> 1] }
Undefined == [t |-> "undefined", v |-> 0]

\* The argument lists of at most n values.
ArgvsUpTo(n) == UNION { [1..k -> JSValues] : k \in 0..n }

IsNumber(x)   == x.t = "number"
IsString(x)   == x.t = "string"
IsFunction(x) == x.t = "function"

\* info[i] of a Nan call: reading past info.Length() yields undefined.
Info(argv, i) == IF i + 1 <= Len(argv) THEN argv[i + 1] ELSE Undefined

\* Nan::To<int32_t>(v).FromJust(): ECMAScript ToInt32. The Numbers drawn here
\* are integers inside the int32 range, which ToInt32 leaves as they are; a
\* non-number converts through ToNumber first, and the strings, functions and
\* undefined here convert to NaN, which ToInt32 takes to 0.
ToInt32(x) == IF IsNumber(x) THEN x.v ELSE 0

\* ------------------------------------------------------------ the driver
\* An error handle is null or carries a message (sweep_error_message).
nullptr      == [what |-> "nullptr"]
fault        == [what |-> "fault"]
timeout      == [what |-> "timeout"]
\* What a command leaves in its error slot, and what get_scan does.
ErrorOuts     == {nullptr, fault}
ScanErrorOuts == {nullptr, fault, timeout}

sweep_error_message(error) == error.what

\* A scan object of the driver: per index 0..n-1 an angle and a distance.
\* The driver's scans here are the scans of every length up to MaxSamples
\* whose samples alternate between two readings, the larger angle first: of
\* two samples or more they are not sorted by angle, of three or more they
\* hold a reading twice. NullScan is what the scan field holds when get_scan
\* failed.
Reading(i) == IF i % 2 = 1 THEN [angle |-> 90, distance |-> 20]
                           ELSE [angle |-> 0, distance |-> 10]
NullScan    == [valid |-> FALSE, data |-> <<>>]
DriverScans == { [valid |-> TRUE, data |-> [i \in 1..m |-> Reading(i)]] : m \in 0..MaxSamples }

sweep_scan_get_number_of_samples(scan) == Len(scan.data)
sweep_scan_get_angle(scan, i)          == scan.data[i + 1].angle
sweep_scan_get_distance(scan, i)       == scan.data[i + 1].distance

\* Values the driver answers get_motor_speed / get_sample_rate with.
DriverValues == {0, 5}

\* ----------------------------------------------------------------- state
VARIABLES
  wrapper,    \* the Sweep object: "none" | "live" | "collected"
  dev,        \* the driver's view of the device the object was built on
  tasks,      \* per AsyncScanWorker: its position and fields
  caller,     \* what the caller's thread is executing: idle or a driver call
  out,        \* the last thing the caller's thread observed: a call's return
              \* or throw, or a scan callback's invocation
  errLive,    \* driver error handles created and not yet destructed
  scanLive,   \* driver scan objects get_scan returned, not yet destructed
  crashed     \* the process died of undefined behaviour

vars == <<wrapper, dev, tasks, caller, out, errLive, scanLive, crashed>>

\* dev.drv is "unused" (construct not called yet), "failed" (the last
\* construct call failed), "open" or "closed" (destructed); dev.destructs
\* counts the sweep_device_destruct calls.
NoDev  == [drv |-> "unused", destructs |-> 0]
\* The driver's construct call a New made: construct_simple() ("simple") or
\* construct(port, baudrate, timeout) ("config").
NoCall == [mode |-> "none", port |-> 0, baudrate |-> 0, timeout |-> 0]
NoTask == [st |-> "none", timeout |-> 0, errmsg |-> "NULL",
           scan |-> NullScan, error |-> nullptr,
           ncalls |-> 0, ncb |-> 0]
Idle   == [op |-> "idle", arg |-> 0, ok |-> TRUE]

\* An observation: kind is "none", "TypeError", "Error", "return" or
\* "callback". op, ok (were the arguments of the shape the interface takes)
\* and ncalls (driver calls made for it) describe the call; msg and val what
\* it threw or returned; error the error handle its driver call returned,
\* answer the value the driver call answered when it returned no error,
\* and, for New, args the arguments it was called with and call the
\* construct call it made. A
\* callback carries its argc, err and samples, and with them what the worker
\* held: the driver's error and scan, and whether the scan was read.
NoOut == [kind |-> "none", op |-> "none", ok |-> TRUE, ncalls |-> 0,
          msg |-> "", val |-> 0, argc |-> 0, err |-> "null", samples |-> <<>>,
          error |-> nullptr, scan |-> NullScan, scanRead |-> FALSE,
          answer |-> 0, args |-> <<>>, call |-> NoCall]

Init ==
  /\ wrapper = "none"
  /\ dev     = NoDev
  /\ tasks   = [t \in Tasks |-> NoTask]
  /\ caller  = Idle
  /\ out     = NoOut
  /\ errLive = 0
  /\ scanLive = 0
  /\ crashed = FALSE

\* What the interface accepts (spec.md section 6): the argument shapes of
\* the public operations. The handlers' own checks are modelled below, each
\* from its code.
WellTyped(op, argv) ==
  CASE op = "New" ->
         \/ Len(argv) = 0
         \/ Len(argv) = 3 /\ IsString(argv[1]) /\ IsNumber(argv[2]) /\ IsNumber(argv[3])
    [] op = "setMotorSpeed" -> Len(argv) = 1 /\ IsNumber(argv[1])
    [] op = "scan" -> Len(argv) = 2 /\ IsNumber(argv[1]) /\ IsFunction(argv[2])
    [] OTHER -> Len(argv) = 0

\* Nan::ThrowTypeError(...): the call ends with a TypeError.
ThrowTypeError(op, argv) ==
  [NoOut EXCEPT !.kind = "TypeError", !.op = op, !.ok = WellTyped(op, argv)]

\* Nan::ThrowError(message), after a driver call that returned error.
ThrowError_swallowed(op, ok, error, message) ==
  [NoOut EXCEPT !.kind = "return", !.op = op, !.ok = ok, !.ncalls = 1,
                !.error = error]

ThrowError(op, ok, error, message) ==
  [NoOut EXCEPT !.kind = "Error", !.op = op, !.ok = ok, !.ncalls = 1,
                !.error = error, !.msg = message]

\* The call returns val, after ncalls driver calls that returned no error.
Return_novalue(op, ok, ncalls, val) ==
  [NoOut EXCEPT !.kind = "return", !.op = op, !.ok = ok, !.ncalls = ncalls]

Return(op, ok, ncalls, val) ==
  [NoOut EXCEPT !.kind = "return", !.op = op, !.ok = ok,
                !.ncalls = ncalls, !.val = val]

\* ------------------------------------------------------------ Sweep::Sweep
\* if (error) throw SweepError{"device construction failed"};
CtorThrows_never(error) == FALSE

CtorThrows(error) == error # nullptr

\* The constructors: one driver construct call, then either the throw or the
\* shared_ptr whose deleter is sweep_device_destruct. On the throwing path
\* the error handle is not passed to sweep_error_destruct (released = 0).
Sweep_ctor(call, error) ==
  [thrown   |-> CtorThrows(error),
   device   |-> [drv |-> IF error = nullptr THEN "open" ELSE "failed",
                 destructs |-> 0],
   call     |-> call,
   released |-> 0]

\* NAN_METHOD(Sweep::New). Called as a plain function, New re-enters itself as
\* a constructor through init->NewInstance(), which passes no arguments. The
\* object the model follows is the first one a constructor completes for.
New(argv, isConstructCall) ==
  /\ ~crashed /\ caller = Idle /\ wrapper = "none"
  /\ LET simple == Len(argv) = 0
         config == Len(argv) = 3 /\ IsString(Info(argv, 0))
                     /\ IsNumber(Info(argv, 1)) /\ IsNumber(Info(argv, 2))
     IN IF ~simple /\ ~config
          THEN /\ out' = ThrowTypeError("New", argv)
               /\ UNCHANGED <<wrapper, dev, errLive>>
          ELSE \E error \in ErrorOuts :
                 LET ok   == WellTyped("New", argv)
                     call == IF isConstructCall /\ config
                               THEN [mode |-> "config", port |-> argv[1].v,
                                     baudrate |-> ToInt32(argv[2]),
                                     timeout |-> ToInt32(argv[3])]
                               ELSE [mode |-> "simple", port |-> 0,
                                     baudrate |-> 0, timeout |-> 0]
                     made == Sweep_ctor(call, error)
                 IN /\ errLive' = errLive + (IF error # nullptr THEN 1 ELSE 0)
                                          - made.released
                    /\ errLive' <= MaxFailures
                    /\ dev' = made.device
                    /\ wrapper' = IF made.thrown THEN "none" ELSE "live"
                    /\ out' = [(IF made.thrown
                                  THEN ThrowError("New", ok, error,
                                                  "device construction failed")
                                  ELSE Return("New", ok, 1, 0))
                                 EXCEPT !.call = made.call, !.args = argv]
  /\ UNCHANGED <<tasks, caller, scanLive, crashed>>

\* The number of shared_ptr owners of the device: the Sweep object alone.
\* AsyncScanWorker holds a Sweep&, which owns nothing.
use_count_shared == IF wrapper = "live" THEN 2 ELSE 0

use_count == IF wrapper = "live" THEN 1 ELSE 0

\* The wrapper becomes unreachable and is collected: ~Sweep releases the
\* shared_ptr, and the deleter runs when the last owner is gone. The holder of
\* a call in progress is reachable.
Discard ==
  /\ ~crashed /\ wrapper = "live" /\ caller = Idle
  /\ wrapper' = "collected"
  /\ dev' = IF use_count - 1 = 0
              THEN [dev EXCEPT !.drv = "closed", !.destructs = @ + 1]
              ELSE dev
  /\ UNCHANGED <<tasks, caller, out, errLive, scanLive, crashed>>

\* ------------------------------------------------- the synchronous methods
\* sweep_error_destruct calls a method makes for the error its driver call
\* returned: if (error) { Nan::ThrowError(...); ::sweep_error_destruct(error); }
ErrorDestructs(error) == IF error # nullptr THEN 1 ELSE 0

\* The first half of a method: Unwrap, the argument check, and the driver
\* call entered on the caller's thread with self->device.get().
Enter(op, argv, rejected, arg) ==
  /\ ~crashed /\ caller = Idle /\ wrapper = "live"
  /\ IF rejected
       THEN /\ out' = ThrowTypeError(op, argv)
            /\ UNCHANGED caller
       ELSE /\ caller' = [op |-> op, arg |-> arg, ok |-> WellTyped(op, argv)]
            /\ UNCHANGED out
  /\ UNCHANGED <<wrapper, dev, tasks, errLive, scanLive, crashed>>

\* The second half: the driver call returns an error handle (and a value);
\* an error is thrown with the driver's message and its handle destructed.
Leave(op, values) ==
  /\ ~crashed /\ caller.op = op
  /\ \E error \in ErrorOuts, v \in values :
       /\ out' = IF error # nullptr
                   THEN ThrowError(op, caller.ok, error, sweep_error_message(error))
                   ELSE [Return(op, caller.ok, 1, v) EXCEPT !.answer = v]
       /\ errLive' = errLive + (IF error # nullptr THEN 1 ELSE 0) - ErrorDestructs(error)
  /\ caller' = Idle
  /\ UNCHANGED <<wrapper, dev, tasks, scanLive, crashed>>

\* A method called with argv: it is entered, and the call that was entered
\* with these arguments returns.
Method(op, argv, rejected, arg, values) ==
  \/ Enter(op, argv, rejected, arg)
  \/ /\ ~rejected
     /\ caller = [op |-> op, arg |-> arg, ok |-> WellTyped(op, argv)]
     /\ Leave(op, values)

startScanning(argv) == Method("startScanning", argv, Len(argv) # 0, 0, {0})

stopScanning(argv) == Method("stopScanning", argv, Len(argv) # 0, 0, {0})

getMotorSpeed(argv) == Method("getMotorSpeed", argv, Len(argv) # 0, 0, DriverValues)

\* if (info.Length() != 1 && !info[0]->IsNumber()) return ThrowTypeError(...)
setMotorSpeed(argv) ==
  Method("setMotorSpeed", argv, Len(argv) # 1 /\ ~IsNumber(Info(argv, 0)),
         ToInt32(Info(argv, 0)), {0})

getSampleRate(argv) == Method("getSampleRate", argv, Len(argv) # 0, 0, DriverValues)

reset(argv) == Method("reset", argv, Len(argv) # 0, 0, {0})

\* Whatever driver call the caller's thread is in returns.
DriverReturns ==
  \/ Leave("startScanning", {0}) \/ Leave("stopScanning", {0})
  \/ Leave("getMotorSpeed", DriverValues) \/ Leave("setMotorSpeed", {0})
  \/ Leave("getSampleRate", DriverValues) \/ Leave("reset", {0})

\* ------------------------------------------------------------------- scan
FreeTasks == { t \in Tasks : tasks[t].st = "none" }
NextTask  == CHOOSE t \in FreeTasks : \A r \in FreeTasks : t <= r

\* AsyncScanWorker(Sweep& sweep, Nan::Callback* callback, int32_t timeout):
\* the worker refers to the Sweep object and leaves its scan field unset.
AsyncScanWorker(ms) == [NoTask EXCEPT !.st = "created", !.timeout = ms]

\* Nan::AsyncQueueWorker(worker): the worker is queued on the thread pool.
AsyncQueueWorker_dropped(worker) == worker

AsyncQueueWorker(worker) == [worker EXCEPT !.st = "queued"]

\* NAN_METHOD(Sweep::scan): the argument check, then a worker is queued; the
\* call returns without calling the driver.
scan(argv) ==
  /\ ~crashed /\ caller = Idle /\ wrapper = "live"
  /\ IF Len(argv) # 2 \/ ~IsNumber(Info(argv, 0)) \/ ~IsFunction(Info(argv, 1))
       THEN /\ out' = ThrowTypeError("scan", argv)
            /\ UNCHANGED tasks
       ELSE /\ FreeTasks # {}
            /\ tasks' = [tasks EXCEPT ![NextTask] =
                           AsyncQueueWorker(AsyncScanWorker(ToInt32(Info(argv, 0))))]
            /\ out' = Return("scan", WellTyped("scan", argv), 0, 0)
  /\ UNCHANGED <<wrapper, dev, caller, errLive, scanLive, crashed>>

\* SetErrorMessage(::sweep_error_message(error)) under if (error).
ExecuteErrmsg_unset(error) == "NULL"

ExecuteErrmsg_fixed(error) == IF error # nullptr THEN "scan failed" ELSE "NULL"

ExecuteErrmsg(error) ==
  IF error # nullptr THEN sweep_error_message(error) ELSE "NULL"

\* Execute, first half: a pool thread enters sweep_device_get_scan with
\* sweep.device.get() and the timeout.
ExecuteCall(t) ==
  /\ ~crashed /\ tasks[t].st = "queued"
  /\ tasks' = [tasks EXCEPT ![t].st = "executing", ![t].ncalls = @ + 1]
  /\ UNCHANGED <<wrapper, dev, caller, out, errLive, scanLive, crashed>>

\* Execute, second half: get_scan returns a scan object, which the worker
\* keeps in its scan field, or an error; the error's message is kept in the
\* worker and the error handle destructed.
ExecuteReturn(t) ==
  /\ ~crashed /\ tasks[t].st = "executing"
  /\ \E result \in [error : {nullptr}, scan : DriverScans]
                     \cup [error : ScanErrorOuts \ {nullptr}, scan : {NullScan}] :
       /\ tasks' = [tasks EXCEPT
                      ![t].st = "executed",
                      ![t].error = result.error,
                      ![t].scan = result.scan,
                      ![t].errmsg = ExecuteErrmsg(result.error)]
       /\ errLive' = errLive + (IF result.error # nullptr THEN 1 ELSE 0)
                             - ErrorDestructs(result.error)
       /\ scanLive' = scanLive + (IF result.error = nullptr THEN 1 ELSE 0)
  /\ UNCHANGED <<wrapper, dev, caller, out, crashed>>

Execute(t) == ExecuteCall(t) \/ ExecuteReturn(t)

\* for (int32_t i = 0; i < n; ++i) Nan::Set(samples, i, {angle, distance}):
\* element i of the JavaScript array is position i + 1 of the sequence.
Samples_reversed(sc) ==
  LET n == sweep_scan_get_number_of_samples(sc)
  IN [i \in 1..n |-> [angle    |-> sweep_scan_get_angle(sc, n - i),
                      distance |-> sweep_scan_get_distance(sc, n - i)]]

Samples(sc) ==
  LET n == sweep_scan_get_number_of_samples(sc)
  IN [i \in 1..n |-> [angle    |-> sweep_scan_get_angle(sc, i - 1),
                      distance |-> sweep_scan_get_distance(sc, i - 1)]]

\* HandleOKCallback: callback->Call(2, {Null, samples}).
HandleOKCallback(task) ==
  [NoOut EXCEPT !.kind = "callback", !.op = "scan", !.ncalls = task.ncalls,
                !.argc = 2, !.err = "null", !.samples = Samples(task.scan),
                !.scanRead = TRUE, !.error = task.error, !.scan = task.scan]

\* Nan::AsyncWorker::HandleErrorCallback, which AsyncScanWorker inherits:
\* callback->Call(1, {Error(ErrorMessage())}).
HandleErrorCallback(task) ==
  [NoOut EXCEPT !.kind = "callback", !.op = "scan", !.ncalls = task.ncalls,
                !.argc = 1, !.err = task.errmsg,
                !.error = task.error, !.scan = task.scan]

\* sweep_scan_destruct calls made for the scan a worker holds, by
\* HandleOKCallback, HandleErrorCallback or the worker's destructor: the
\* worker has no destructor of its own and neither handler makes the call.
ScanDestructs(task) == 0

\* Nan::AsyncQueueWorker hands the worker to uv_queue_work: its completion is
\* run by the event loop of the caller's thread, which takes up a completion
\* only when no call of that thread is in progress.
EventLoopTurn_any == TRUE

EventLoopTurn == caller = Idle

\* Nan::AsyncWorker::WorkComplete on the caller's thread, between two of its
\* calls: one of the two handlers runs, then the worker is destroyed.
WorkComplete(t) ==
  /\ ~crashed /\ EventLoopTurn /\ tasks[t].st = "executed"
  /\ out' = IF tasks[t].errmsg = "NULL" THEN HandleOKCallback(tasks[t])
                                        ELSE HandleErrorCallback(tasks[t])
  /\ tasks' = [tasks EXCEPT ![t] =
                 [NoTask EXCEPT !.st = "done", !.ncalls = tasks[t].ncalls,
                                !.ncb = tasks[t].ncb + 1]]
  /\ scanLive' = scanLive - ScanDestructs(tasks[t])
  /\ UNCHANGED <<wrapper, dev, caller, errLive, crashed>>

\* ------------------------------------------------- concurrent driver access
\* The workers whose get_scan call is executing, and those queued by scan()
\* whose callback has not been invoked yet.
Executing   == { t \in Tasks : tasks[t].st = "executing" }
Outstanding == { t \in Tasks : tasks[t].st \in {"queued", "executing", "executed"} }

\* get_scan is executing with the device of a collected Sweep: the worker's
\* Sweep& dangles and the device was destructed. The behaviour is undefined:
\* the call may return anything (ExecuteReturn) or the process may die.
UseAfterDestruct == Executing # {} /\ dev.drv = "closed"

Crash ==
  /\ ~crashed /\ UseAfterDestruct
  /\ crashed' = TRUE
  /\ UNCHANGED <<wrapper, dev, tasks, caller, out, errLive, scanLive>>

\* ------------------------------------------------------------------- Next
\* Each method is called with every argument list of up to one value more
\* than it takes (New: of up to the three it takes).
Next ==
  \/ \E argv \in ArgvsUpTo(3), c \in BOOLEAN : New(argv, c)
  \/ Discard
  \/ \E argv \in ArgvsUpTo(1) : startScanning(argv)
  \/ \E argv \in ArgvsUpTo(1) : stopScanning(argv)
  \/ \E argv \in ArgvsUpTo(1) : getMotorSpeed(argv)
  \/ \E argv \in ArgvsUpTo(2) : setMotorSpeed(argv)
  \/ \E argv \in ArgvsUpTo(1) : getSampleRate(argv)
  \/ \E argv \in ArgvsUpTo(1) : reset(argv)
  \/ \E argv \in ArgvsUpTo(3) : scan(argv)
  \/ \E t \in Tasks : Execute(t)
  \/ \E t \in Tasks : WorkComplete(t)
  \/ Crash

Spec == Init /\ [][Next]_vars

\* The thread pool runs every queued worker, the driver's calls return, and
\* the caller's event loop runs a finished worker's completion whenever the
\* caller's thread is between calls.
Fairness ==
  /\ \A t \in Tasks : WF_vars(ExecuteCall(t)) /\ WF_vars(ExecuteReturn(t))
  /\ \A t \in Tasks : SF_vars(WorkComplete(t))
  /\ WF_vars(DriverReturns)

LiveSpec == Spec /\ Fairness

\* ----------------------------------------------------------------- claims

\* C1: the driver's destruct is never called on the device while a worker
\* queued by scan() is still outstanding, so get_scan never executes with a
\* destructed device.
C1_NoDestructWhileOutstanding ==
  /\ Outstanding # {} => dev.drv # "closed"
  /\ ~UseAfterDestruct

\* C2: while a worker is outstanding (queued by scan(), callback not invoked
\* yet) no synchronous command is executing a driver call on the device.
C2_CommandsDeferred == caller # Idle => Outstanding = {}

\* C3: at most one get_scan call is executing against the device.
C3_OneScanInFlight == Cardinality(Executing) <= 1

\* C4: the callback of an accepted scan() is invoked once, when its worker
\* completes, never twice; the invocation carries (null, samples) when the
\* driver's get_scan succeeded and (error) alone when it failed.
C4_CallbackOnceOneOutcome ==
  /\ \A t \in Tasks : tasks[t].ncb = (IF tasks[t].st = "done" THEN 1 ELSE 0)
  /\ out.kind = "callback" =>
       IF out.error = nullptr
         THEN out.argc = 2 /\ out.err = "null"
         ELSE out.argc = 1 /\ out.err # "null" /\ out.samples = <<>>

C4_Witness ==
  /\ \A t \in Tasks : tasks[t].st = "done" /\ tasks[t].ncb = 1
  /\ out.kind = "callback" /\ out.error = nullptr

\* C5: given that the pool runs queued workers, the driver's calls return
\* and the caller's event loop keeps running (Fairness), the callback of
\* every worker a scan() call created is eventually invoked, unless the
\* process died in a get_scan call that never returned.
C5_ScanCompletes ==
  \A t \in Tasks : (tasks[t].st # "none") ~> (tasks[t].ncb = 1 \/ crashed)

C5_Witness ==
  /\ \E t \in Tasks : tasks[t].st = "done" /\ tasks[t].ncb = 1
  /\ out.kind = "callback" /\ out.error = timeout /\ ~crashed

\* C6: when get_scan returned a scan of N samples, the callback receives a
\* null error and exactly N records, record i holding the angle and the
\* distance the driver reports for index i.
C6_SamplesPassThrough ==
  (out.kind = "callback" /\ out.error = nullptr) =>
    LET n == sweep_scan_get_number_of_samples(out.scan)
    IN /\ out.argc = 2 /\ out.err = "null"
       /\ DOMAIN out.samples = 1..n
       /\ \A i \in 0..(n - 1) :
            /\ out.samples[i + 1].angle = sweep_scan_get_angle(out.scan, i)
            /\ out.samples[i + 1].distance = sweep_scan_get_distance(out.scan, i)

C6_Witness ==
  /\ out.kind = "callback" /\ out.error = nullptr
  /\ Len(out.samples) = MaxSamples
  /\ out.samples[1] # out.samples[2]

\* C7: when get_scan reported an error (a timeout included), the callback is
\* invoked with an error carrying the driver's message and nothing else; no
\* sample array is built and the worker's scan field is not read.
C7_ErrorOnlyOnFailure ==
  (out.kind = "callback" /\ out.error # nullptr) =>
    /\ out.argc = 1
    /\ out.err = sweep_error_message(out.error)
    /\ out.samples = <<>>
    /\ ~out.scanRead

C7_Witness ==
  /\ out.kind = "callback" /\ out.error = timeout
  /\ out.err = "timeout" /\ out.argc = 1

\* C8: a call whose arguments have the wrong count or type makes no driver
\* call: no driver call is entered for it and none was made when it ended.
C8_ArgumentsCheckedFirst ==
  /\ caller # Idle => caller.ok
  /\ out.ncalls > 0 => out.ok

\* C9: no driver error handle remains unreleased once the operation that
\* received it has ended.
C9_NoErrorLeak == errLive = 0

\* C10: when construct_simple or construct reported a failure, New throws
\* "device construction failed", no Sweep object exists for that
\* construction, and destruct is not called for it.
C10_FailedConstruction ==
  /\ dev.drv = "failed" => wrapper = "none" /\ dev.destructs = 0
  /\ (out.op = "New" /\ out.error # nullptr) =>
       out.kind = "Error" /\ out.msg = "device construction failed"

C10_Witness ==
  /\ dev.drv = "failed" /\ wrapper = "none"
  /\ out.op = "New" /\ out.kind = "Error" /\ out.error = fault

\* C11: sweep_device_destruct is called at most once on the device of a
\* Sweep object: not at all while the object is alive, when its one device
\* is open, and exactly once when the object has been collected.
C11_DestructOnce ==
  /\ dev.destructs <= 1
  /\ wrapper = "live" => dev.drv = "open" /\ dev.destructs = 0
  /\ wrapper = "collected" => dev.drv = "closed" /\ dev.destructs = 1

C11_Witness ==
  /\ wrapper = "collected" /\ dev.destructs = 1
  /\ Outstanding = {} /\ caller = Idle
  /\ \E t \in Tasks : tasks[t].st = "done"

\* C12: the callback of a scan is invoked on the caller's thread when that
\* thread is not inside a call of this object, and it is the one step that
\* delivers a callback; a step of the pool thread (entering get_scan, or
\* get_scan returning) changes its own worker's fields and nothing the
\* caller's thread owns: not the Sweep object, its device, the call in
\* progress, what the caller observed, or another worker.
C12_CallbackOnCallerThread ==
  [][\A t \in Tasks :
       /\ tasks'[t].ncb # tasks[t].ncb =>
            /\ caller = Idle /\ caller' = Idle
            /\ out'.kind = "callback"
            /\ tasks[t].st = "executed"
       /\ (tasks[t].st \in {"queued", "executing"} /\ tasks'[t].st # tasks[t].st) =>
            /\ UNCHANGED <<wrapper, dev, caller, out>>
            /\ \A r \in Tasks \ {t} : tasks'[r] = tasks[r]]_vars

C12_Witness ==
  /\ caller # Idle /\ out.kind = "callback"
  /\ \E t \in Tasks : tasks[t].st = "executed"
  /\ \E t \in Tasks : tasks[t].st = "done"

\* C13: with no worker outstanding, the caller's thread is in one driver
\* call at a time: a call is entered only when none is in progress, and the
\* call in progress ends before anything else happens on that thread. The
\* command that ends is the one that was entered, it made one driver call,
\* and it throws exactly when the driver returned an error; when it does
\* not throw it returns the value the driver answered, and when it throws
\* it returns no value.
C13_CommandsInOrder ==
  [][(Outstanding = {} /\ caller' # caller) =>
       IF caller = Idle
         THEN /\ caller'.op \in {"startScanning", "stopScanning", "getMotorSpeed",
                                 "setMotorSpeed", "getSampleRate", "reset"}
              /\ out' = out
         ELSE /\ caller' = Idle
              /\ out'.op = caller.op /\ out'.ncalls = 1
              /\ out'.kind = (IF out'.error # nullptr THEN "Error" ELSE "return")
              /\ out'.kind = "return" => out'.val = out'.answer
              /\ out'.kind = "Error" =>
                   out'.val = 0 /\ out'.msg = sweep_error_message(out'.error)]_vars

C13_Witness ==
  /\ Outstanding = {} /\ caller.op = "reset"
  /\ out.op = "getMotorSpeed" /\ out.kind = "return" /\ out.val = 5

\* C14: a worker calls get_scan once, and a call that ended after reaching
\* the driver made one driver call, whether that call succeeded or failed
\* (scan() itself returns before its worker's call). An error the driver
\* returned is reported: the call throws an Error with a message, the
\* callback gets an error as its first argument, and a worker whose
\* get_scan failed holds an error message for its completion.
C14_OneCallNoRetry ==
  /\ \A t \in Tasks :
       /\ tasks[t].ncalls =
            (IF tasks[t].st \in {"executing", "executed", "done"} THEN 1 ELSE 0)
       /\ (tasks[t].st = "executed" /\ tasks[t].error # nullptr) =>
            tasks[t].errmsg # "NULL"
  /\ out.kind = "callback" => out.ncalls = 1
  /\ (out.kind \in {"return", "Error"} /\ out.op # "scan") => out.ncalls = 1
  /\ out.error # nullptr =>
       \/ out.kind = "Error" /\ out.msg # ""
       \/ out.kind = "callback" /\ out.argc >= 1 /\ out.err # "null"

C14_Witness ==
  /\ out.kind = "Error" /\ out.op = "stopScanning" /\ out.error = fault
  /\ out.ncalls = 1
  /\ \E t \in Tasks : tasks[t].st = "done" /\ tasks[t].ncalls = 1

\* C15: a New that reached the driver with three arguments (a string and
\* two numbers) called construct with the values of those three arguments,
\* and one that called construct_simple was called with no arguments.
C15_ConstructAsRequested ==
  (out.op = "New" /\ out.ncalls = 1) =>
    IF Len(out.args) = 3
      THEN out.call = [mode |-> "config", port |-> out.args[1].v,
                       baudrate |-> out.args[2].v, timeout |-> out.args[3].v]
      ELSE Len(out.args) = 0 /\ out.call.mode = "simple"

\* C16: once every worker has completed, no scan object that get_scan
\* returned is left undestructed.
C16_NoScanLeak == Outstanding = {} => scanLive = 0

====
